---- MODULE Spec2Model ----
(***************************************************************************)
(* Model of the upspin/aws repository:                                     *)
(*   - cloud/storage/s3/s3.go: the S3 storage adapter (New, Put, Download, *)
(*     Delete) together with the object service it talks to;               *)
(*   - cmd/upspin-setupstorage-aws (main.go): the setup run and the clean  *)
(*     run of the provisioning command.                                    *)
(* Strings that the code inspects character by character are sequences of  *)
(* one-character strings, so that strings.TrimSpace is computed, not       *)
(* assumed.                                                                *)
(***************************************************************************)
EXTENDS Integers, Sequences, FiniteSets, TLC

VARIABLES
    newOpts,    \* New: the option set last dialled
    newRes,     \* New: what New returned for it
    s,          \* store: the adapter (s3Impl) the client calls
    objects,    \* store: the service's objects, key -> <<>> or <<object>>
    pc,         \* store: per caller, "idle" | "calling" | "done"
    req,        \* store: per caller, the adapter call in progress
    res,        \* store: per caller, what the adapter call returned
    expect,     \* store: per ref, what the callers last wrote (history)
    mine,       \* store: per caller, the Put it made in the concurrent run
    cmdPc,      \* command: position in main / clean
    cmdMode,    \* command: "" | "setup" | "clean"
    calls,      \* command: the API calls attempted, in order
    outs,       \* command: the outcome of each attempted call
    logged,     \* command: messages printed to the operator
    cfgStore    \* command: the StoreConfig written, <<>> if none

vars == <<newOpts, newRes, s, objects, pc, req, res, expect, mine,
          cmdPc, cmdMode, calls, outs, logged, cfgStore>>

newVars   == <<newOpts, newRes>>
storeVars == <<s, objects, pc, req, res, expect, mine>>
cmdVars   == <<cmdPc, cmdMode, calls, outs, logged, cfgStore>>

----------------------------------------------------------------------------
(* Bounds *)

NumRefs  == 2   \* refs the callers use
MaxLen   == 1   \* longest blob, over the byte values of Bytes
NumProcs == 2   \* concurrent callers

----------------------------------------------------------------------------
(* Strings *)

WhiteSpace == {" ", "\t", "\n", "\r"}

RECURSIVE TrimLeft(_)
TrimLeft(str) ==
    IF str /= <<>> /\ Head(str) \in WhiteSpace THEN TrimLeft(Tail(str)) ELSE str

RECURSIVE TrimRight(_)
TrimRight(str) ==
    IF str /= <<>> /\ str[Len(str)] \in WhiteSpace
    THEN TrimRight(SubSeq(str, 1, Len(str) - 1))
    ELSE str

TrimSpace(str) == TrimRight(TrimLeft(str))

ACLPublicRead == <<"p","u","b","l","i","c","-","r","e","a","d">>
ACLPrivate    == <<"p","r","i","v","a","t","e">>

regionName  == "s3Region"
bucketName  == "s3BucketName"
defaultACL  == "defaultACL"
endpointURL == "endpoint"
pathstyle   == "pathstyle"

StrTrue  == <<"t","r","u","e">>
StrFalse == <<"f","a","l","s","e">>

Invalid  == "Invalid"
IO       == "IO"
NotExist == "NotExist"
NoError  == ""

----------------------------------------------------------------------------
(* New *)

NoEndpoint == <<>>

\* aws.Config as New fills it in.
Config(region, endpoint, force) ==
    [Region |-> region, Endpoint |-> endpoint, S3ForcePathStyle |-> force]

\* What New returns: the adapter (<<>> is nil), the error kind, and how many
\* sessions it opened on the way.
NewFail(kind, nsess) == [s |-> <<>>, err |-> kind, sessions |-> nsess]

Has(opts, k) == k \in DOMAIN opts

\* Variant of New: an absent path-style flag defaults to "false".
NewMissingPathstyle(opts, sessOK) ==
    IF ~Has(opts, regionName) THEN NewFail(Invalid, 0)
    ELSE IF ~Has(opts, bucketName) THEN NewFail(Invalid, 0)
    ELSE IF ~Has(opts, defaultACL) THEN NewFail(Invalid, 0)
    ELSE LET endpoint == IF Has(opts, endpointURL) THEN opts[endpointURL] ELSE NoEndpoint
             flag == IF Has(opts, pathstyle) THEN opts[pathstyle] ELSE StrFalse
         IN IF TrimSpace(flag) \notin {StrTrue, StrFalse} THEN NewFail(Invalid, 0)
            ELSE IF opts[defaultACL] \notin {ACLPrivate, ACLPublicRead}
                 THEN NewFail(Invalid, 0)
            ELSE IF ~sessOK THEN NewFail(IO, 1)
            ELSE [s |-> << [service |-> Config(opts[regionName], endpoint,
                                               TrimSpace(flag) = StrTrue),
                            bucketName |-> opts[bucketName],
                            defaultWriteACL |-> opts[defaultACL]] >>,
                  err |-> NoError, sessions |-> 1]

\* Variant of New: the path-style flag is compared without TrimSpace.
NewUntrimmed(opts, sessOK) ==
    IF ~Has(opts, regionName) THEN NewFail(Invalid, 0)
    ELSE IF ~Has(opts, bucketName) THEN NewFail(Invalid, 0)
    ELSE IF ~Has(opts, defaultACL) THEN NewFail(Invalid, 0)
    ELSE IF ~Has(opts, pathstyle) THEN NewFail(Invalid, 0)
    ELSE LET endpoint == IF Has(opts, endpointURL) THEN opts[endpointURL] ELSE NoEndpoint
         IN IF opts[pathstyle] \notin {StrTrue, StrFalse} THEN NewFail(Invalid, 0)
            ELSE IF opts[defaultACL] \notin {ACLPrivate, ACLPublicRead}
                 THEN NewFail(Invalid, 0)
            ELSE IF ~sessOK THEN NewFail(IO, 1)
            ELSE [s |-> << [service |-> Config(opts[regionName], endpoint,
                                               opts[pathstyle] = StrTrue),
                            bucketName |-> opts[bucketName],
                            defaultWriteACL |-> opts[defaultACL]] >>,
                  err |-> NoError, sessions |-> 1]

\* New(opts): sessOK is whether session.NewSessionWithOptions succeeds.
New(opts, sessOK) ==
    IF ~Has(opts, regionName) THEN NewFail(Invalid, 0)
    ELSE IF ~Has(opts, bucketName) THEN NewFail(Invalid, 0)
    ELSE IF ~Has(opts, defaultACL) THEN NewFail(Invalid, 0)
    ELSE IF ~Has(opts, pathstyle) THEN NewFail(Invalid, 0)
    ELSE LET endpoint == IF Has(opts, endpointURL) THEN opts[endpointURL] ELSE NoEndpoint
             force == IF TrimSpace(opts[pathstyle]) = StrTrue THEN <<TRUE>>
                      ELSE IF TrimSpace(opts[pathstyle]) = StrFalse THEN <<FALSE>>
                      ELSE <<>>
         IN IF force = <<>> THEN NewFail(Invalid, 0)
            ELSE IF opts[defaultACL] /= ACLPrivate /\ opts[defaultACL] /= ACLPublicRead
                 THEN NewFail(Invalid, 0)
            ELSE IF ~sessOK THEN NewFail(IO, 1)
            ELSE [s |-> << [service |-> Config(opts[regionName], endpoint, force[1]),
                            bucketName |-> opts[bucketName],
                            defaultWriteACL |-> opts[defaultACL]] >>,
                  err |-> NoError, sessions |-> 1]

\* Option values the caller may dial with.
TestRegion == <<"u","s">>
TestBucket == <<"b","k","t">>
TestEndpoint == <<"e","p">>

PathstyleVals ==
    { StrTrue, StrFalse, <<" ">> \o StrTrue, StrFalse \o <<"\n">>,
      <<"\t">> \o StrTrue \o <<" ">>, <<"T","r","u","e">>, <<"y","e","s">>,
      <<"t","r"," ","u","e">>, <<>>, <<" ">> }

ACLVals ==
    { ACLPublicRead, ACLPrivate, ACLPrivate \o <<" ">>, <<"P","r","i","v","a","t","e">>,
      <<>> }

OptVals(k) ==
    CASE k = regionName  -> {TestRegion}
      [] k = bucketName  -> {TestBucket}
      [] k = defaultACL  -> ACLVals
      [] k = endpointURL -> {TestEndpoint}
      [] k = pathstyle   -> PathstyleVals

OptKeys == {regionName, bucketName, defaultACL, endpointURL, pathstyle}
Required == {regionName, bucketName, defaultACL, pathstyle}

AllOptVals == UNION {OptVals(k) : k \in OptKeys}

OptSets ==
    UNION { {o \in [K -> AllOptVals] : \A k \in K : o[k] \in OptVals(k)} :
            K \in SUBSET OptKeys }

\* The option set the test harness dials with and the setup command writes.
HarnessOpts ==
    [k \in {regionName, bucketName, defaultACL} |->
        CASE k = regionName -> TestRegion
          [] k = bucketName -> TestBucket
          [] k = defaultACL -> ACLPublicRead]

NoResult == [s |-> <<>>, err |-> "none", sessions |-> 0]

Dial(o, sessOK) ==
    /\ newOpts' = o
    /\ newRes' = New(o, sessOK)
    /\ UNCHANGED <<storeVars, cmdVars>>

----------------------------------------------------------------------------
(* The object service, as the adapter's three requests see it *)

Refs  == 1..NumRefs
Bytes == {0, 255}
Blobs == UNION {[1..n -> Bytes] : n \in 0..MaxLen}
Procs == 1..NumProcs

StatusNotFound == 404

\* A response: the error the SDK call returns (failed, whether it is an
\* awserr.RequestFailure, its status code) and the body it produced.
Ok(body)     == [failed |-> FALSE, rf |-> FALSE, status |-> 0, body |-> body]
Failure(st)  == [failed |-> TRUE, rf |-> TRUE, status |-> st, body |-> <<>>]
OtherError   == [failed |-> TRUE, rf |-> FALSE, status |-> 0, body |-> <<>>]
NoFault      == Ok(<<>>)

\* What the service or the transport may answer instead of serving a request.
Faults == {Failure(403), Failure(StatusNotFound), OtherError}

\* The bucket that exists at the service.
S3Bucket == TestBucket

\* The service's side of the three requests: a get of an absent key (or of
\* an absent bucket) is answered 404, an upload replaces the object, a delete
\* removes it and succeeds whether or not it was there.
GetObject(objs, in) ==
    IF in.Bucket /= S3Bucket \/ objs[in.Key] = <<>>
    THEN [objects |-> objs, resp |-> Failure(StatusNotFound)]
    ELSE [objects |-> objs, resp |-> Ok(objs[in.Key][1].body)]

Upload(objs, in) ==
    IF in.Bucket /= S3Bucket
    THEN [objects |-> objs, resp |-> Failure(StatusNotFound)]
    ELSE [objects |-> [objs EXCEPT ![in.Key] = << [body |-> in.Body, acl |-> in.ACL] >>],
          resp |-> Ok(<<>>)]

DeleteObject(objs, in) ==
    IF in.Bucket /= S3Bucket
    THEN [objects |-> objs, resp |-> Failure(StatusNotFound)]
    ELSE [objects |-> [objs EXCEPT ![in.Key] = <<>>], resp |-> Ok(<<>>)]

\* One request: refused with the fault, or served.
Serve(served, objs, fault) ==
    IF fault.failed THEN [objects |-> objs, resp |-> fault] ELSE served

----------------------------------------------------------------------------
(* The adapter's operations.  Each returns the error kind and data handed  *)
(* to the caller, the service's objects afterwards, and the number of      *)
(* requests it sent.                                                       *)

Result(err, data, objs, n) ==
    [err |-> err, data |-> data, objects |-> objs, requests |-> n]

\* Variant of Download: the 404 check is left out.
DownloadAllIO(a, ref, objs, fault) ==
    LET out == Serve(GetObject(objs, [Bucket |-> a.bucketName, Key |-> ref]), objs, fault)
    IN IF out.resp.failed
       THEN Result(IO, <<>>, out.objects, 1)
       ELSE Result(NoError, <<out.resp.body>>, out.objects, 1)

\* Variant of Download: the key requested is not the ref.
DownloadFirstKey(a, ref, objs, fault) ==
    LET out == Serve(GetObject(objs, [Bucket |-> a.bucketName, Key |-> 1]), objs, fault)
    IN IF out.resp.failed
       THEN IF out.resp.rf /\ out.resp.status = StatusNotFound
            THEN Result(NotExist, <<>>, out.objects, 1)
            ELSE Result(IO, <<>>, out.objects, 1)
       ELSE Result(NoError, <<out.resp.body>>, out.objects, 1)

Download(a, ref, objs, fault) ==
    LET out == Serve(GetObject(objs, [Bucket |-> a.bucketName, Key |-> ref]), objs, fault)
    IN IF out.resp.failed
       THEN IF out.resp.rf /\ out.resp.status = StatusNotFound
            THEN Result(NotExist, <<>>, out.objects, 1)
            ELSE Result(IO, <<>>, out.objects, 1)
       ELSE Result(NoError, <<out.resp.body>>, out.objects, 1)

\* Variant of Put: a 404 is classified as Download classifies it.
PutNotFound(a, ref, contents, objs, fault) ==
    LET out == Serve(Upload(objs, [ACL |-> a.defaultWriteACL, Bucket |-> a.bucketName,
                                   Key |-> ref, Body |-> contents]), objs, fault)
    IN IF out.resp.failed
       THEN IF out.resp.rf /\ out.resp.status = StatusNotFound
            THEN Result(NotExist, <<>>, out.objects, 1)
            ELSE Result(IO, <<>>, out.objects, 1)
       ELSE Result(NoError, <<>>, out.objects, 1)

\* Variant of Put: the key written is not the ref.
PutFirstKey(a, ref, contents, objs, fault) ==
    LET out == Serve(Upload(objs, [ACL |-> a.defaultWriteACL, Bucket |-> a.bucketName,
                                   Key |-> 1, Body |-> contents]), objs, fault)
    IN IF out.resp.failed
       THEN Result(IO, <<>>, out.objects, 1)
       ELSE Result(NoError, <<>>, out.objects, 1)

Put(a, ref, contents, objs, fault) ==
    LET out == Serve(Upload(objs, [ACL |-> a.defaultWriteACL, Bucket |-> a.bucketName,
                                   Key |-> ref, Body |-> contents]), objs, fault)
    IN IF out.resp.failed
       THEN Result(IO, <<>>, out.objects, 1)
       ELSE Result(NoError, <<>>, out.objects, 1)

\* Variant of Delete: the object is looked up first and its absence reported.
DeleteChecked(a, ref, objs, fault) ==
    LET probe == GetObject(objs, [Bucket |-> a.bucketName, Key |-> ref])
        out == Serve(DeleteObject(objs, [Bucket |-> a.bucketName, Key |-> ref]), objs, fault)
    IN IF out.resp.failed
       THEN Result(IO, <<>>, out.objects, 1)
       ELSE IF probe.resp.failed
            THEN Result(NotExist, <<>>, objs, 2)
            ELSE Result(NoError, <<>>, out.objects, 2)

Delete(a, ref, objs, fault) ==
    LET out == Serve(DeleteObject(objs, [Bucket |-> a.bucketName, Key |-> ref]), objs, fault)
    IN IF out.resp.failed
       THEN Result(IO, <<>>, out.objects, 1)
       ELSE Result(NoError, <<>>, out.objects, 1)

----------------------------------------------------------------------------
(* Callers of the adapter *)

NoReq == [op |-> "", ref |-> 0, contents |-> <<>>]
Never      == [state |-> "never", data |-> <<>>]
Deleted    == [state |-> "deleted", data |-> <<>>]
Written(b) == [state |-> "written", data |-> b]

NoRes == [err |-> "none", data |-> <<>>, fault |-> NoFault, requests |-> 0,
          want |-> Never]

\* The options the callers' adapter is dialled with: the harness's, with the
\* path-style flag New requires.
DialOpts == [k \in Required |-> IF k = pathstyle THEN StrFalse ELSE HarnessOpts[k]]

Issue(p, op, ref, contents) ==
    /\ pc[p] /= "calling"
    /\ pc' = [pc EXCEPT ![p] = "calling"]
    /\ req' = [req EXCEPT ![p] = [op |-> op, ref |-> ref, contents |-> contents]]
    /\ res' = [res EXCEPT ![p] = NoRes]

CallPut(p, ref, contents) ==
    /\ Issue(p, "Put", ref, contents)
    /\ UNCHANGED <<s, objects, expect, mine, newVars, cmdVars>>

CallDownload(p, ref) ==
    /\ Issue(p, "Download", ref, <<>>)
    /\ UNCHANGED <<s, objects, expect, mine, newVars, cmdVars>>

CallDelete(p, ref) ==
    /\ Issue(p, "Delete", ref, <<>>)
    /\ UNCHANGED <<s, objects, expect, mine, newVars, cmdVars>>

\* The adapter call of caller p runs: one request to the service, its answer
\* classified, the result returned.
Run(p, fault) ==
    CASE req[p].op = "Put"      -> Put(s, req[p].ref, req[p].contents, objects, fault)
      [] req[p].op = "Download" -> Download(s, req[p].ref, objects, fault)
      [] req[p].op = "Delete"   -> Delete(s, req[p].ref, objects, fault)

Respond(p, fault) ==
    /\ pc[p] = "calling"
    /\ LET r == Run(p, fault)
       IN /\ objects' = r.objects
          /\ res' = [res EXCEPT ![p] = [err |-> r.err, data |-> r.data, fault |-> fault,
                                        requests |-> r.requests,
                                        want |-> IF req[p].op = "Put" THEN Never
                                                 ELSE expect[req[p].ref]]]
          /\ expect' = IF r.err = NoError /\ req[p].op = "Put"
                       THEN [expect EXCEPT ![req[p].ref] = Written(req[p].contents)]
                       ELSE IF r.err = NoError /\ req[p].op = "Delete"
                       THEN [expect EXCEPT ![req[p].ref] = Deleted]
                       ELSE expect
    /\ pc' = [pc EXCEPT ![p] = "done"]
    /\ UNCHANGED <<s, req, mine, newVars, cmdVars>>

\* The concurrent run: every caller puts to a ref no other caller uses, and
\* downloads it once all puts have returned.
UsedRefs == {mine[q][1].ref : q \in {x \in Procs : mine[x] /= <<>>}}

ConcPut(p, ref, contents) ==
    /\ mine[p] = <<>>
    /\ ref \notin UsedRefs
    /\ Issue(p, "Put", ref, contents)
    /\ mine' = [mine EXCEPT ![p] = << [ref |-> ref, contents |-> contents] >>]
    /\ UNCHANGED <<s, objects, expect, newVars, cmdVars>>

ConcDownload(p) ==
    /\ \A q \in Procs : mine[q] /= <<>> /\ pc[q] = "done"
    /\ req[p].op = "Put"
    /\ Issue(p, "Download", mine[p][1].ref, <<>>)
    /\ UNCHANGED <<s, objects, expect, mine, newVars, cmdVars>>

\* The caller of the sequential run.
Client == CHOOSE p \in Procs : TRUE

----------------------------------------------------------------------------
(* The setupstorage-aws command *)

CmdOutcomes == {NoFault} \cup Faults

SetupOrder ==
    << "CreateRole", "CreateInstanceProfile", "AddRoleToInstanceProfile",
       "CreateBucket", "AttachRolePolicy", "WriteServerConfig" >>

CleanOrder ==
    << "DeleteBucket", "RemoveRoleFromInstanceProfile", "DeleteInstanceProfile",
       "DeleteRolePolicy", "DeleteRole" >>

\* s.Exitf(msg): print the message and end the run.
Exitf(msg) ==
    /\ logged' = Append(logged, msg)
    /\ cmdPc' = "exit"

Attempt(api, out) ==
    /\ calls' = Append(calls, api)
    /\ outs' = Append(outs, out)

NewSession(ok) ==
    /\ cmdPc = "start"
    /\ IF ok THEN cmdPc' = "flags" /\ UNCHANGED logged
       ELSE Exitf("unable to create session")
    /\ UNCHANGED <<cmdMode, calls, outs, cfgStore, newVars, storeVars>>

ParseFlags(nargs, domainGiven, clean) ==
    /\ cmdPc = "flags"
    /\ IF nargs /= 1
       THEN Exitf("a single bucket name must be provided") /\ UNCHANGED cmdMode
       ELSE IF ~domainGiven
       THEN Exitf("the -domain flag must be provided") /\ UNCHANGED cmdMode
       ELSE IF clean
       THEN cmdPc' = "DeleteBucket" /\ cmdMode' = "clean" /\ UNCHANGED logged
       ELSE cmdPc' = "ReadServerConfig" /\ cmdMode' = "setup" /\ UNCHANGED logged
    /\ UNCHANGED <<calls, outs, cfgStore, newVars, storeVars>>

\* s.ReadServerConfig returns the config, or ends the run itself when it
\* cannot be read (it returns no error to main).
ReadServerConfig(ok) ==
    /\ cmdPc = "ReadServerConfig"
    /\ IF ok THEN cmdPc' = "CreateRole" /\ UNCHANGED logged
       ELSE Exitf("unable to read server config")
    /\ UNCHANGED <<cmdMode, calls, outs, cfgStore, newVars, storeVars>>

createRoleAccount(out) ==
    /\ cmdPc = "CreateRole"
    /\ Attempt("CreateRole", out)
    /\ IF out.failed THEN Exitf("unable to create role account")
       ELSE cmdPc' = "CreateInstanceProfile" /\ UNCHANGED logged
    /\ UNCHANGED <<cmdMode, cfgStore, newVars, storeVars>>

createInstanceProfile(out1, out2) ==
    /\ cmdPc = "CreateInstanceProfile"
    /\ IF out1.failed
       THEN /\ Attempt("CreateInstanceProfile", out1)
            /\ out2 = NoFault
            /\ Exitf("unable to create instance profile")
       ELSE /\ calls' = calls \o <<"CreateInstanceProfile", "AddRoleToInstanceProfile">>
            /\ outs' = outs \o <<out1, out2>>
            /\ IF out2.failed THEN Exitf("unable to create instance profile")
               ELSE cmdPc' = "CreateBucket" /\ UNCHANGED logged
    /\ UNCHANGED <<cmdMode, cfgStore, newVars, storeVars>>

\* Variant of createBucket's call in main: the error is printed, the run goes on.
createBucketGoesOn(out) ==
    /\ cmdPc = "CreateBucket"
    /\ Attempt("CreateBucket", out)
    /\ cmdPc' = "AttachRolePolicy"
    /\ logged' = IF out.failed THEN Append(logged, "unable to create S3 bucket") ELSE logged
    /\ UNCHANGED <<cmdMode, cfgStore, newVars, storeVars>>

createBucket(out) ==
    /\ cmdPc = "CreateBucket"
    /\ Attempt("CreateBucket", out)
    /\ IF out.failed THEN Exitf("unable to create S3 bucket")
       ELSE cmdPc' = "AttachRolePolicy" /\ UNCHANGED logged
    /\ UNCHANGED <<cmdMode, cfgStore, newVars, storeVars>>

attachRolePolicy(out) ==
    /\ cmdPc = "AttachRolePolicy"
    /\ Attempt("AttachRolePolicy", out)
    /\ IF out.failed THEN Exitf("unable to attach role policy")
       ELSE cmdPc' = "WriteServerConfig" /\ UNCHANGED logged
    /\ UNCHANGED <<cmdMode, cfgStore, newVars, storeVars>>

\* cfg.StoreConfig is set and written; the run ends (s.ExitNow).
WriteServerConfig(ok) ==
    /\ cmdPc = "WriteServerConfig"
    /\ Attempt("WriteServerConfig", IF ok THEN NoFault ELSE OtherError)
    /\ IF ok
       THEN /\ cfgStore' = <<HarnessOpts>>
            /\ logged' = Append(logged, "You should now deploy the upspinserver binary")
            /\ cmdPc' = "exit"
       ELSE Exitf("unable to write server config") /\ UNCHANGED cfgStore
    /\ UNCHANGED <<cmdMode, newVars, storeVars>>

\* One removal of clean: the call, then err.(awserr.RequestFailure).StatusCode()
\* on its error, which panics when the error is no RequestFailure.
CleanCall(api, msg, next, out) ==
    /\ cmdPc = api
    /\ Attempt(api, out)
    /\ IF out.failed /\ ~out.rf
       THEN cmdPc' = "panic" /\ UNCHANGED logged
       ELSE /\ cmdPc' = next
            /\ logged' = IF out.failed /\ out.status /= StatusNotFound
                         THEN Append(logged, msg) ELSE logged
    /\ UNCHANGED <<cmdMode, cfgStore, newVars, storeVars>>

cleanDeleteBucket(out) ==
    CleanCall("DeleteBucket", "unable to delete bucket",
              "RemoveRoleFromInstanceProfile", out)

cleanRemoveRoleFromInstanceProfile(out) ==
    CleanCall("RemoveRoleFromInstanceProfile",
              "unable to remove role from instance profile",
              "DeleteInstanceProfile", out)

cleanDeleteInstanceProfile(out) ==
    CleanCall("DeleteInstanceProfile", "unable to delete instance profile",
              "DeleteRolePolicy", out)

cleanDeleteRolePolicy(out) ==
    CleanCall("DeleteRolePolicy", "unable to delete role", "DeleteRole", out)

cleanDeleteRole(out) ==
    CleanCall("DeleteRole", "unable to delete role", "exit", out)

----------------------------------------------------------------------------
(* Specifications *)

Init ==
    /\ newOpts = <<>>
    /\ newRes = NoResult
    /\ s = New(DialOpts, TRUE).s[1]
    /\ objects = [r \in Refs |-> <<>>]
    /\ pc = [p \in Procs |-> "idle"]
    /\ req = [p \in Procs |-> NoReq]
    /\ res = [p \in Procs |-> NoRes]
    /\ expect = [r \in Refs |-> Never]
    /\ mine = [p \in Procs |-> <<>>]
    /\ cmdPc = "start"
    /\ cmdMode = ""
    /\ calls = <<>>
    /\ outs = <<>>
    /\ logged = <<>>
    /\ cfgStore = <<>>

\* One caller using the adapter, the service free to fail any request.
Next ==
    \/ \E ref \in Refs, contents \in Blobs : CallPut(Client, ref, contents)
    \/ \E ref \in Refs : CallDownload(Client, ref)
    \/ \E ref \in Refs : CallDelete(Client, ref)
    \/ \E fault \in Faults \cup {NoFault} : Respond(Client, fault)

Spec == Init /\ [][Next]_vars

\* NumProcs callers putting concurrently to distinct refs.
NextConc ==
    \/ \E p \in Procs, ref \in Refs, contents \in Blobs : ConcPut(p, ref, contents)
    \/ \E p \in Procs : Respond(p, NoFault)
    \/ \E p \in Procs : ConcDownload(p)

SpecConc == Init /\ [][NextConc]_vars

\* New applied to every option set.
NextNew == \E o \in OptSets, sessOK \in BOOLEAN : Dial(o, sessOK)

SpecNew == Init /\ [][NextNew]_vars

\* One run of the command.
NextCmd ==
    \/ \E ok \in BOOLEAN : NewSession(ok)
    \/ \E nargs \in 0..2, d \in BOOLEAN, c \in BOOLEAN : ParseFlags(nargs, d, c)
    \/ \E ok \in BOOLEAN : ReadServerConfig(ok)
    \/ \E out \in CmdOutcomes : createRoleAccount(out)
    \/ \E out1 \in CmdOutcomes, out2 \in CmdOutcomes : createInstanceProfile(out1, out2)
    \/ \E out \in CmdOutcomes : createBucket(out)
    \/ \E out \in CmdOutcomes : attachRolePolicy(out)
    \/ \E ok \in BOOLEAN : WriteServerConfig(ok)
    \/ \E out \in CmdOutcomes : cleanDeleteBucket(out)
    \/ \E out \in CmdOutcomes : cleanRemoveRoleFromInstanceProfile(out)
    \/ \E out \in CmdOutcomes : cleanDeleteInstanceProfile(out)
    \/ \E out \in CmdOutcomes : cleanDeleteRolePolicy(out)
    \/ \E out \in CmdOutcomes : cleanDeleteRole(out)

SpecCmd == Init /\ [][NextCmd]_vars

----------------------------------------------------------------------------
(* Claims about the store *)

Done(p, op) == pc[p] = "done" /\ req[p].op = op

\* The service served the request of p's call rather than failing it.
Served(p) == ~res[p].fault.failed

\* C1: a Download of ref R that the service serves returns exactly the bytes
\* of the most recent successful Put on R not followed by a Delete on R
\* (the empty blob included), whatever was done to other refs in between;
\* and no Download ever returns any other bytes.
C1_DownloadReturnsLastPut ==
    \A p \in Procs :
        Done(p, "Download") =>
            /\ (Served(p) /\ res[p].want.state = "written") =>
                   (res[p].err = NoError /\ res[p].data = <<res[p].want.data>>)
            /\ res[p].data /= <<>> =>
                   (res[p].want.state = "written" /\ res[p].data = <<res[p].want.data>>)
            /\ res[p].err /= NoError => res[p].data = <<>>

C1_Witness ==
    \E p \in Procs, r \in Refs :
        /\ Done(p, "Download") /\ r /= req[p].ref
        /\ res[p].err = NoError /\ res[p].data = <<res[p].want.data>>
        /\ expect[r].state = "written" /\ expect[r].data /= res[p].want.data

\* C2: after a successful Put on R and a successful Delete on R with no later
\* Put on R, every Download of R fails and returns no data; the failure is
\* NotExist whenever the service serves the request (it answers 404), and
\* IO only if the request itself failed with something other than 404.
C2_DownloadAfterDeleteNotFound ==
    \A p \in Procs :
        (Done(p, "Download") /\ res[p].want.state = "deleted") =>
            /\ res[p].err /= NoError
            /\ res[p].data = <<>>
            /\ Served(p) => res[p].err = NotExist
            /\ res[p].err = IO =>
                   (res[p].fault.failed /\ res[p].fault /= Failure(StatusNotFound))

C2_Witness ==
    \E p \in Procs :
        /\ Done(p, "Download") /\ res[p].want.state = "deleted"
        /\ Served(p) /\ res[p].err = NotExist /\ res[p].data = <<>>

\* C3: a Delete the service serves on a ref never written, or already
\* deleted, returns no error and leaves the store as it was; no Delete ever
\* returns NotExist or touches another ref.
C3_DeleteAbsentIsNoOp ==
    [][ \A p \in Procs :
          (pc[p] = "calling" /\ pc'[p] = "done" /\ req[p].op = "Delete") =>
              /\ res'[p].err /= NotExist
              /\ \A r \in Refs \ {req[p].ref} : objects'[r] = objects[r]
              /\ (~res'[p].fault.failed /\ expect[req[p].ref].state /= "written") =>
                     (res'[p].err = NoError /\ objects' = objects)
      ]_vars

C3_Witness ==
    \E p \in Procs, r \in Refs :
        /\ Done(p, "Delete") /\ res[p].want.state = "deleted"
        /\ Served(p) /\ res[p].err = NoError
        /\ r /= req[p].ref /\ expect[r].state = "written" /\ objects[r] /= <<>>

\* C7: in the concurrent run, under every interleaving, every Put succeeds,
\* once all have returned each ref holds the contents its caller put, and
\* every Download of a caller's ref returns exactly that caller's contents.
C7_ConcurrentPutsIndependent ==
    /\ \A p \in Procs : Done(p, "Put") => res[p].err = NoError
    /\ (\A q \in Procs : mine[q] /= <<>> /\ pc[q] = "done") =>
           \A p \in Procs :
               objects[mine[p][1].ref] =
                   << [body |-> mine[p][1].contents, acl |-> s.defaultWriteACL] >>
    /\ \A p \in Procs :
           Done(p, "Download") =>
               (res[p].err = NoError /\ res[p].data = <<mine[p][1].contents>>)

C7_Witness ==
    /\ \A p \in Procs : Done(p, "Download") /\ res[p].data = <<mine[p][1].contents>>
    /\ \A p \in Procs, q \in Procs :
           p /= q => (mine[p][1].ref /= mine[q][1].ref
                      /\ mine[p][1].contents /= mine[q][1].contents)

\* C9: every adapter call sends one request and classifies its failure once:
\* Download returns NotExist exactly when the service's failure carries
\* status 404 and IO for every other failure; Put and Delete return IO for
\* every failure and never NotExist.
C9_FailureClassification ==
    \A p \in Procs :
        pc[p] = "done" =>
            /\ res[p].requests = 1
            /\ req[p].op = "Download" =>
                   /\ res[p].err = NotExist <=>
                          \/ res[p].fault = Failure(StatusNotFound)
                          \/ (Served(p) /\ res[p].want.state /= "written")
                   /\ res[p].err = IO <=>
                          (res[p].fault.failed /\ res[p].fault /= Failure(StatusNotFound))
            /\ req[p].op \in {"Put", "Delete"} =>
                   /\ res[p].err = IO <=> res[p].fault.failed
                   /\ res[p].err = NoError <=> Served(p)

C9_Witness ==
    \E p \in Procs :
        /\ Done(p, "Put") /\ res[p].fault = Failure(StatusNotFound) /\ res[p].err = IO

----------------------------------------------------------------------------
(* Claims about New *)

Dialled == newRes.err /= "none"

\* str is w with white space before and after it.
Padded(str, w) ==
    \E a \in 0..Len(str), b \in 0..Len(str) :
        /\ a + Len(w) + b = Len(str)
        /\ SubSeq(str, a + 1, a + Len(w)) = w
        /\ \A i \in (1..a) \cup ((Len(str) - b + 1)..Len(str)) : str[i] \in WhiteSpace

C5_LiteralFlagOnly ==
    (Dialled /\ Required \subseteq DOMAIN newOpts) =>
        /\ (newOpts[pathstyle] \notin {StrTrue, StrFalse}
            \/ newOpts[defaultACL] \notin {ACLPublicRead, ACLPrivate}) =>
               newRes.err = Invalid
        /\ newRes.s /= <<>> =>
               (newOpts[pathstyle] \in {StrTrue, StrFalse}
                /\ newRes.s[1].defaultWriteACL \in {ACLPublicRead, ACLPrivate})

\* C5 amended: with all required options present, New fails with Invalid
\* exactly when the flag with its leading and trailing white space removed is
\* neither "true" nor "false", or the ACL is not literally "public-read" or
\* "private"; an adapter was built from a flag that is "true" or "false"
\* padded with white space, forces path style exactly for "true", and holds
\* an ACL of the enumeration.
C5_TrimmedFlagOnly ==
    (Dialled /\ Required \subseteq DOMAIN newOpts) =>
        LET flag == newOpts[pathstyle]
            good == /\ Padded(flag, StrTrue) \/ Padded(flag, StrFalse)
                    /\ newOpts[defaultACL] \in {ACLPublicRead, ACLPrivate}
        IN /\ newRes.err = Invalid <=> ~good
           /\ newRes.s /= <<>> =>
                  /\ good
                  /\ newRes.s[1].service.S3ForcePathStyle = Padded(flag, StrTrue)
                  /\ newRes.s[1].defaultWriteACL = newOpts[defaultACL]

C5_Witness ==
    /\ Dialled /\ Required \subseteq DOMAIN newOpts
    /\ newOpts[pathstyle] = <<"\t">> \o StrTrue \o <<" ">>
    /\ newRes.s /= <<>>
    /\ newRes.s[1].service.S3ForcePathStyle = TRUE

\* C6: the option set of the test harness and of the setup command's store
\* config (region, bucket, defaultACL = public-read) is accepted by New.
C6_HarnessOptsAccepted ==
    (Dialled /\ DOMAIN newOpts = DOMAIN HarnessOpts /\ newOpts = HarnessOpts) =>
        (newRes.err /= Invalid /\ (newRes.err = NoError => newRes.s /= <<>>))

----------------------------------------------------------------------------
(* Claims about the command *)

\* The failures clean must report: all but not-found.
Reportable(out) == out.failed /\ ~(out.rf /\ out.status = StatusNotFound)

\* C8: whatever the outcome of each removal, a clean run attempts all five
\* removals in order and reports every failure that is not a not-found.
C8_CleanAttemptsAll ==
    (cmdMode = "clean" /\ cmdPc \in {"exit", "panic"}) =>
        /\ calls = CleanOrder
        /\ cmdPc = "exit"
        /\ Len(logged) = Cardinality({i \in 1..Len(outs) : Reportable(outs[i])})

\* C10: a setup run makes its calls in the fixed order, writes the store
\* config only after every call before it succeeded, and ends at the first
\* failure with nothing further attempted and nothing removed.
C10_SetupOrder ==
    cmdMode = "setup" =>
        /\ Len(calls) <= Len(SetupOrder) /\ Len(outs) = Len(calls)
        /\ \A i \in 1..Len(calls) : calls[i] = SetupOrder[i]
        /\ cfgStore /= <<>> =>
               (calls = SetupOrder /\ \A i \in 1..Len(outs) : ~outs[i].failed)
        /\ \A i \in 1..Len(outs) :
               outs[i].failed => (i = Len(calls) /\ cmdPc = "exit" /\ cfgStore = <<>>)

C10_Witness ==
    /\ cmdMode = "setup" /\ cmdPc = "exit"
    /\ calls = SubSeq(SetupOrder, 1, 4)
    /\ outs[4].failed /\ \A i \in 1..3 : ~outs[i].failed
    /\ cfgStore = <<>>

====
